---- MODULE Spec2Model ----
(***************************************************************************)
(* A model of dummy_data_generator.py: several generator processes         *)
(* ("nodes") write files into one output directory and merge their         *)
(* progress into one shared status file.  Each node runs a main thread     *)
(* (run) and up to thread_count worker threads (create_files_batch).       *)
(*                                                                         *)
(* Abstractions: file contents are a tag naming how the bytes got there,   *)
(* wall-clock time is the nondeterministic outcome of "time_diff > 0", a   *)
(* throughput value is the number of files its byte quantity stands for,   *)
(* and the host metadata, timestamps and file_size_kb of the status        *)
(* record, which no operation reads back, are left out.                    *)
(***************************************************************************)
EXTENDS Integers, Sequences, FiniteSets, TLC

\* ---------------------------------------------------------------- bounds
MaxFiles == 11
MaxFilesMulti == 3
MaxThreads == 2
MaxNodeCount == 2
MaxPre == 1
MaxFaults == 1
MaxFaultFilesMulti == 1
MaxRuns == 2
\* Inputs of the pure functions.
MaxFnNodes == 3
MaxFnIndex == 3
MaxFnFiles == 12
MaxFnThreads == 5

\* The node ids that may be launched against the output directory.
NodeIds == {0, 1}
Main == 0
Workers == 1 .. MaxThreads
Threads == 0 .. MaxThreads

\* ------------------------------------------------------ program constants
\* "if self.files_created % 10 == 0": the status interval.
StatusInterval == 10
\* "data_mb = (self.file_size_bytes * 10)": files assumed since last update.
ThroughputFiles == 10

Free == -1
\* No record written in the current run of a node had an entry for it.
NotShown == -1
\* throughput_mb_s: None is the empty sequence, a value is << files >>.
Null == << >>
\* The status file is absent, holds no parseable JSON, or holds a record.
Absent == [kind |-> "absent"]
Corrupt == [kind |-> "corrupt"]
NoStatus == [kind |-> "none"]

VARIABLES
    num_files,      \* self.num_files, the same for every launched node
    thread_count,   \* self.thread_count
    node_count,     \* node_count[n]: self.node_count of node n
    launched,       \* the nodes started against the directory
    tpc,            \* tpc[n][t]: position of thread t of node n
    phase,          \* phase[n]: which publish of run() the main thread is at
    spawn_i,        \* the loop variable i of run()'s spawn loop
    range,          \* range[n][t]: (start_num, count) given to worker t
    cur,            \* cur[n][t]: the loop variable of create_files_batch
    lock,           \* lock[n]: the holder of self.lock, or Free
    files_created,  \* self.files_created
    tmp,            \* tmp[n][t]: the value "+= 1" loaded
    last_update_set,\* self.last_update_time is not None
    status,         \* status[n][t]: the local "status" of update_shared_status
    existing,       \* existing[n][t]: what that call read from the file
    fs,             \* the output directory: path -> content tag
    statusFile,     \* .dummy_data_status.json: Absent, Corrupt or a record
    warnings,       \* warnings[n]: "already exists, skipping" lines printed
    errors,         \* errors[n]: "Error creating" lines printed
    calls,          \* calls[n][i]: create_file(i) invocations so far
    written,        \* written[n]: files this run of node n wrote completely
    faults,         \* I/O failures injected so far
    raced,          \* history: a publish read the file during another node's
    runs,           \* runs[n]: how many times node n was started
    shown,          \* history: shown[j], the highest files_created a record
                    \* written during node j's current run showed for j
    fn              \* the pure-function harness: inputs and result

vars == << num_files, thread_count, node_count, launched, tpc, phase, spawn_i,
           range, cur, lock, files_created, tmp, last_update_set, status,
           existing, fs, statusFile, warnings, errors, calls, written,
           faults, raced, runs, fn, shown >>

\* ------------------------------------------------------- pure functions

\* The decimal digits of a natural number, as str() prints them.
RECURSIVE Dec(_)
Dec(k) ==
    IF k < 10 THEN << k >> ELSE Dec(k \div 10) \o << k % 10 >>

\* A slip in the index arithmetic: the stride node_count is left out.
GlobalNumNoStride(file_num, nc, nid) ==
    file_num + nid

\* create_file: global_num = (file_num * self.node_count) + self.node_id
GlobalNum(file_num, nc, nid) ==
    (file_num * nc) + nid

\* The node id left out of the name.
FileNameNoNode(nid, global_num) ==
    << "dummy_" >> \o Dec(global_num) \o << ".dat" >>

\* create_file: f"dummy_n{self.node_id}_{global_num}.dat"
FileName(nid, global_num) ==
    << "dummy_n" >> \o Dec(nid) \o << "_" >> \o Dec(global_num) \o << ".dat" >>

FilePath(n, file_num) ==
    FileName(n, GlobalNum(file_num, node_count[n], n))

Min(a, b) ==
    IF a < b THEN a ELSE b

\* The remainder forgotten: every thread gets files_per_thread files.
FilesToCreateNoExtra(F, W, i) ==
    F \div W

\* The share rounded up for every thread.
FilesToCreateRoundedUp(F, W, i) ==
    (F + W - 1) \div W

\* run: files_per_thread + (1 if i < remaining_files else 0)
FilesToCreate(F, W, i) ==
    (F \div W) + (IF i < F % W THEN 1 ELSE 0)

\* A slip in the range arithmetic: the longer ranges before i are forgotten.
StartNumNoRemainder(F, W, i) ==
    i * (F \div W)

\* run: start_num = i * files_per_thread + min(i, remaining_files)
StartNum(F, W, i) ==
    i * (F \div W) + Min(i, F % W)

\* The (start_num, count) pairs run() hands to threads, in spawn order;
\* "if files_to_create == 0: continue" drops the empty ones.
RECURSIVE RangesFrom(_, _, _)
RangesFrom(F, W, i) ==
    IF i >= W THEN << >>
    ELSE IF FilesToCreate(F, W, i) = 0 THEN RangesFrom(F, W, i + 1)
    ELSE << << StartNum(F, W, i), FilesToCreate(F, W, i) >> >>
             \o RangesFrom(F, W, i + 1)

Ranges(F, W) ==
    RangesFrom(F, W, 0)

\* round(x, 1) of the quotient a / b * 100, in tenths of a percent
\* (round half to even, as Python rounds).
RoundTenths(a, b) ==
    LET q == (1000 * a) \div b
        r == (1000 * a) % b
    IN  IF 2 * r < b THEN q
        ELSE IF 2 * r > b THEN q + 1
        ELSE IF q % 2 = 0 THEN q ELSE q + 1

RECURSIVE SumFiles(_, _)
SumFiles(nodes, ids) ==
    IF ids = {} THEN 0
    ELSE LET j == CHOOSE x \in ids : TRUE
         IN  nodes[j].files_created + SumFiles(nodes, ids \ {j})

\* An indentation slip: files are summed only for nodes with a throughput.
AggregateStatsActiveOnly(nodes, total_files) ==
    LET active == { j \in DOMAIN nodes : nodes[j].throughput # Null }
        total == SumFiles(nodes, active)
    IN  [ active_nodes |-> Cardinality(active),
          total_files_created |-> total,
          percent_complete |-> RoundTenths(total, total_files) ]

\* The test for a throughput left out: every entry counts as active.
AggregateStatsAllActive(nodes, total_files) ==
    LET total == SumFiles(nodes, DOMAIN nodes)
    IN  [ active_nodes |-> Cardinality(DOMAIN nodes),
          total_files_created |-> total,
          percent_complete |-> RoundTenths(total, total_files) ]

\* update_shared_status, "Calculate aggregate stats"
AggregateStats(nodes, total_files) ==
    LET total == SumFiles(nodes, DOMAIN nodes)
    IN  [ active_nodes |->
              Cardinality({ j \in DOMAIN nodes : nodes[j].throughput # Null }),
          total_files_created |-> total,
          percent_complete |-> RoundTenths(total, total_files) ]

\* update_shared_status: status['nodes'][str(self.node_id)] = {...}
NodeEntry(n, throughput) ==
    [ files_created |-> files_created[n],
      percent_complete |-> << files_created[n] * 100, num_files >>,
      throughput |-> throughput,
      node_count |-> node_count[n],
      target_files |-> num_files ]

\* The merge forgotten: the record starts from the empty 'nodes'.
MergeExistingDropped(ex) ==
    << >>

\* "if 'nodes' in existing: status['nodes'].update(existing['nodes'])"
MergeExisting(ex) ==
    IF ex.kind = "record" THEN ex.nodes ELSE << >>

\* The cluster target mistaken for the node's own: node_count left out.
BuildStatusOwnTarget(n, ex, throughput) ==
    LET nodes == (n :> NodeEntry(n, throughput)) @@ MergeExisting(ex)
    IN  [ kind |-> "record",
          nodes |-> nodes,
          total_files |-> num_files,
          aggregate_stats |-> AggregateStats(nodes, num_files) ]

\* The two assignments to status['nodes'] swapped: what was read replaces
\* the entry just computed.
BuildStatusExistingWins(n, ex, throughput) ==
    LET nodes == MergeExisting(ex) @@ (n :> NodeEntry(n, throughput))
        total == num_files * node_count[n]
    IN  [ kind |-> "record",
          nodes |-> nodes,
          total_files |-> total,
          aggregate_stats |-> AggregateStats(nodes, total) ]

\* The record update_shared_status builds for node n from what it read.
BuildStatus(n, ex, throughput) ==
    LET nodes == (n :> NodeEntry(n, throughput)) @@ MergeExisting(ex)
        total == num_files * node_count[n]
    IN  [ kind |-> "record",
          nodes |-> nodes,
          total_files |-> total,
          aggregate_stats |-> AggregateStats(nodes, total) ]

\* ------------------------------------------------------------- control

WorkerOf(i) == i + 1

\* Where a thread goes when update_shared_status returns.
AfterPublish(n, t) ==
    IF t = Main
    THEN (IF phase[n] = "init" THEN "spawn" ELSE "done")
    ELSE "unlock"

\* create_files_batch: the next iteration of "for i in range(...)".
NextIndex(n, t) ==
    /\ cur' = [cur EXCEPT ![n][t] = @ + 1]
    /\ tpc' = [tpc EXCEPT ![n][t] =
                 IF cur[n][t] + 1 < range[n][t][1] + range[n][t][2]
                 THEN "exists" ELSE "done"]

\* File contents: what an earlier, unmodelled run left; the random bytes
\* the current run of node n generates (generate_random_data); the
\* beginning of them.
PreContent == << "pre", 0 >>
Generated(n) == << "gen", runs[n] >>
Partial(n) == << "partial", runs[n] >>

\* ---------------------------------------------------------------- Init

\* Files a previous run may have left in the directory.
PreCandidates(nodes) ==
    { FileName(n, g) : n \in nodes, g \in 0 .. MaxPre - 1 }

\* __init__, lines 22-33, for every node: nothing has run yet.
Fresh ==
    /\ tpc = [n \in NodeIds |-> [t \in Threads |->
                IF t = Main /\ n \in launched THEN "run" ELSE "idle"]]
    /\ phase = [n \in NodeIds |-> "init"]
    /\ spawn_i = [n \in NodeIds |-> 0]
    /\ range = [n \in NodeIds |-> [t \in Threads |-> << 0, 0 >>]]
    /\ cur = [n \in NodeIds |-> [t \in Threads |-> 0]]
    /\ lock = [n \in NodeIds |-> Free]
    /\ files_created = [n \in NodeIds |-> 0]
    /\ tmp = [n \in NodeIds |-> [t \in Threads |-> 0]]
    /\ last_update_set = [n \in NodeIds |-> FALSE]
    /\ status = [n \in NodeIds |-> [t \in Threads |-> NoStatus]]
    /\ existing = [n \in NodeIds |-> [t \in Threads |-> NoStatus]]
    /\ statusFile = Absent
    /\ warnings = [n \in NodeIds |-> 0]
    /\ errors = [n \in NodeIds |-> 0]
    /\ calls = [n \in NodeIds |-> [i \in 0 .. num_files - 1 |-> 0]]
    /\ written = [n \in NodeIds |-> {}]
    /\ faults = 0
    /\ raced = FALSE
    /\ runs = [n \in NodeIds |-> IF n \in launched THEN 1 ELSE 0]
    /\ shown = [n \in NodeIds |-> NotShown]

\* The run the larger bounds are spent on: node 0 alone with node_count 1.
SingleValidNode ==
    launched = {0} /\ node_count[0] = 1

\* main, lines 229-238: the runs launched against one output directory.
\* Node 0 alone may get up to MaxFiles files, MaxThreads threads and files
\* left by an earlier run; every other choice of launched nodes and node
\* counts (node ids >= node_count included) gets up to MaxFilesMulti files,
\* MaxThreads threads in total and an empty directory.
InitRun ==
    /\ num_files \in 0 .. MaxFiles
    /\ thread_count \in 1 .. MaxThreads
    /\ launched \in SUBSET NodeIds \ {{}}
    /\ node_count \in [NodeIds -> 1 .. MaxNodeCount]
    /\ \A n \in NodeIds \ launched : node_count[n] = 1
    /\ ~SingleValidNode => num_files <= MaxFilesMulti
    /\ Cardinality(launched) * thread_count <= MaxThreads
    /\ \E pre \in SUBSET PreCandidates(launched) :
          /\ Cardinality(pre) <= MaxPre
          /\ ~SingleValidNode => pre = {}
          /\ fs = [p \in pre |-> PreContent]
    /\ Fresh

NoFn == [op |-> "none"]

Init ==
    /\ InitRun
    /\ fn = NoFn

\* ------------------------------------------------------------- actions

\* run, lines 157-160: set start_time and last_update_time, then publish.
Run(n) ==
    /\ tpc[n][Main] = "run"
    /\ last_update_set' = [last_update_set EXCEPT ![n] = TRUE]
    /\ tpc' = [tpc EXCEPT ![n][Main] = "pub_read"]
    /\ UNCHANGED << num_files, thread_count, node_count, launched, phase,
                    spawn_i, range, cur, lock, files_created, tmp, status,
                    existing, fs, statusFile, warnings, errors, calls,
                    written, faults, raced, runs, fn,
                    shown >>

\* Another node is between the read and the end of the write of a publish.
OtherPublishing(n) ==
    \E m \in NodeIds \ {n} : \E t \in Threads :
        tpc[m][t] \in {"pub_open", "pub_dump"}

\* update_shared_status, lines 80-147: read the file, overlay this node's
\* entry, recompute the aggregates.  An unparseable file (json.load raises)
\* or num_files = 0 (ZeroDivisionError at line 102) ends in the except
\* clause: the attempt is dropped.  elapsed is "time_diff > 0".
ReadStatus(n, t) ==
    /\ tpc[n][t] = "pub_read"
    /\ IF statusFile.kind = "corrupt" \/ num_files = 0
       THEN /\ tpc' = [tpc EXCEPT ![n][t] = AfterPublish(n, t)]
            /\ UNCHANGED << status, existing, last_update_set >>
       ELSE \E elapsed \in BOOLEAN :
              LET throughput ==
                      IF last_update_set[n] /\ files_created[n] > 0 /\ elapsed
                      THEN << ThroughputFiles >> ELSE Null
              IN  /\ existing' = [existing EXCEPT ![n][t] = statusFile]
                  /\ status' = [status EXCEPT ![n][t] =
                                   BuildStatus(n, statusFile, throughput)]
                  /\ last_update_set' = [last_update_set EXCEPT ![n] = TRUE]
                  /\ tpc' = [tpc EXCEPT ![n][t] = "pub_open"]
    /\ raced' = (raced \/ OtherPublishing(n))
    /\ UNCHANGED << num_files, thread_count, node_count, launched, phase,
                    spawn_i, range, cur, lock, files_created, tmp, fs,
                    statusFile, warnings, errors, calls, written, faults,
                    runs, fn,
                    shown >>

\* update_shared_status, line 150: open(self.status_file, 'w') truncates.
OpenStatus(n, t) ==
    /\ tpc[n][t] = "pub_open"
    /\ statusFile' = Corrupt
    /\ tpc' = [tpc EXCEPT ![n][t] = "pub_dump"]
    /\ UNCHANGED << num_files, thread_count, node_count, launched, phase,
                    spawn_i, range, cur, lock, files_created, tmp,
                    last_update_set, status, existing, fs, warnings, errors,
                    calls, written, faults, raced, runs, fn,
                    shown >>

\* update_shared_status, line 151: json.dump writes the whole record.
DumpStatus(n, t) ==
    /\ tpc[n][t] = "pub_dump"
    /\ statusFile' = status[n][t]
    /\ shown' = [j \in NodeIds |->
                   IF j \in DOMAIN status[n][t].nodes
                        /\ status[n][t].nodes[j].files_created > shown[j]
                   THEN status[n][t].nodes[j].files_created ELSE shown[j]]
    /\ tpc' = [tpc EXCEPT ![n][t] = AfterPublish(n, t)]
    /\ UNCHANGED << num_files, thread_count, node_count, launched, phase,
                    spawn_i, range, cur, lock, files_created, tmp,
                    last_update_set, status, existing, fs, warnings, errors,
                    calls, written, faults, raced, runs, fn >>

\* The "continue" left out: a thread is started for an empty range too and
\* ends at once.
SpawnEmptyRanges(n) ==
    /\ tpc[n][Main] = "spawn"
    /\ IF spawn_i[n] >= thread_count
       THEN /\ tpc' = [tpc EXCEPT ![n][Main] = "join"]
            /\ UNCHANGED << spawn_i, range, cur >>
       ELSE LET i == spawn_i[n]
                w == WorkerOf(i)
                files_to_create == FilesToCreate(num_files, thread_count, i)
                start_num == StartNum(num_files, thread_count, i)
            IN  /\ spawn_i' = [spawn_i EXCEPT ![n] = i + 1]
                /\ range' = [range EXCEPT ![n][w] =
                                << start_num, files_to_create >>]
                /\ cur' = [cur EXCEPT ![n][w] = start_num]
                /\ tpc' = [tpc EXCEPT ![n][w] =
                             IF files_to_create = 0 THEN "done" ELSE "exists"]
    /\ UNCHANGED << num_files, thread_count, node_count, launched, phase,
                    lock, files_created, tmp, last_update_set, status,
                    existing, fs, statusFile, warnings, errors, calls,
                    written, faults, raced, runs, fn,
                    shown >>

\* run, lines 171-184: one iteration of the spawn loop; after the last one
\* the main thread waits in join.
Spawn(n) ==
    /\ tpc[n][Main] = "spawn"
    /\ IF spawn_i[n] >= thread_count
       THEN /\ tpc' = [tpc EXCEPT ![n][Main] = "join"]
            /\ UNCHANGED << spawn_i, range, cur >>
       ELSE LET i == spawn_i[n]
                w == WorkerOf(i)
                files_to_create == FilesToCreate(num_files, thread_count, i)
                start_num == StartNum(num_files, thread_count, i)
            IN  /\ spawn_i' = [spawn_i EXCEPT ![n] = i + 1]
                /\ IF files_to_create = 0
                   THEN UNCHANGED << range, cur, tpc >>
                   ELSE /\ range' = [range EXCEPT ![n][w] =
                                        << start_num, files_to_create >>]
                        /\ cur' = [cur EXCEPT ![n][w] = start_num]
                        /\ tpc' = [tpc EXCEPT ![n][w] = "exists"]
    /\ UNCHANGED << num_files, thread_count, node_count, launched, phase,
                    lock, files_created, tmp, last_update_set, status,
                    existing, fs, statusFile, warnings, errors, calls,
                    written, faults, raced, runs, fn,
                    shown >>

\* The join loop left out: the final publish does not wait for the threads.
JoinNoWait(n) ==
    /\ tpc[n][Main] = "join"
    /\ phase' = [phase EXCEPT ![n] = "final"]
    /\ tpc' = [tpc EXCEPT ![n][Main] = "pub_read"]
    /\ UNCHANGED << num_files, thread_count, node_count, launched, spawn_i,
                    range, cur, lock, files_created, tmp, last_update_set,
                    status, existing, fs, statusFile, warnings, errors,
                    calls, written, faults, raced, runs, fn,
                    shown >>

\* run, lines 186-193: every started thread has ended; the final publish.
Join(n) ==
    /\ tpc[n][Main] = "join"
    /\ \A w \in Workers : tpc[n][w] \in {"idle", "done"}
    /\ phase' = [phase EXCEPT ![n] = "final"]
    /\ tpc' = [tpc EXCEPT ![n][Main] = "pub_read"]
    /\ UNCHANGED << num_files, thread_count, node_count, launched, spawn_i,
                    range, cur, lock, files_created, tmp, last_update_set,
                    status, existing, fs, statusFile, warnings, errors,
                    calls, written, faults, raced, runs, fn,
                    shown >>

\* The exists() test left out: every path is written.
CheckExistsAlwaysWrite(n, w) ==
    /\ tpc[n][w] = "exists"
    /\ calls' = [calls EXCEPT ![n][cur[n][w]] = @ + 1]
    /\ tpc' = [tpc EXCEPT ![n][w] = "write"]
    /\ UNCHANGED << num_files, thread_count, node_count, launched, phase,
                    spawn_i, range, cur, lock, files_created, tmp,
                    last_update_set, status, existing, fs, statusFile,
                    warnings, errors, written, faults, raced, runs, fn,
                    shown >>

\* create_file, lines 44-48: compute the path and test file_path.exists().
CheckExists(n, w) ==
    /\ tpc[n][w] = "exists"
    /\ calls' = [calls EXCEPT ![n][cur[n][w]] = @ + 1]
    /\ tpc' = [tpc EXCEPT ![n][w] =
                 IF FilePath(n, cur[n][w]) \in DOMAIN fs
                 THEN "warn" ELSE "write"]
    /\ UNCHANGED << num_files, thread_count, node_count, launched, phase,
                    spawn_i, range, cur, lock, files_created, tmp,
                    last_update_set, status, existing, fs, statusFile,
                    warnings, errors, written, faults, raced, runs, fn,
                    shown >>

\* A skipped file counted as created.
WarnCountsFile(n, w) ==
    /\ tpc[n][w] = "warn"
    /\ lock[n] = Free
    /\ warnings' = [warnings EXCEPT ![n] = @ + 1]
    /\ files_created' = [files_created EXCEPT ![n] = @ + 1]
    /\ NextIndex(n, w)
    /\ UNCHANGED << num_files, thread_count, node_count, launched, phase,
                    spawn_i, range, lock, tmp, last_update_set, status,
                    existing, fs, statusFile, errors, calls, written,
                    faults, raced, runs, fn, shown >>

\* create_file, lines 49-51: print the warning under the lock and return.
Warn(n, w) ==
    /\ tpc[n][w] = "warn"
    /\ lock[n] = Free
    /\ warnings' = [warnings EXCEPT ![n] = @ + 1]
    /\ NextIndex(n, w)
    /\ UNCHANGED << num_files, thread_count, node_count, launched, phase,
                    spawn_i, range, lock, files_created, tmp,
                    last_update_set, status, existing, fs, statusFile,
                    errors, calls, written, faults, raced, runs, fn,
                    shown >>

\* create_file, lines 53-54: open(file_path, 'wb') and write the data.
WriteFile(n, w) ==
    /\ tpc[n][w] = "write"
    /\ fs' = (FilePath(n, cur[n][w]) :> Generated(n)) @@ fs
    /\ written' = [written EXCEPT ![n] = @ \cup {cur[n][w]}]
    /\ tpc' = [tpc EXCEPT ![n][w] = "lock"]
    /\ UNCHANGED << num_files, thread_count, node_count, launched, phase,
                    spawn_i, range, cur, lock, files_created, tmp,
                    last_update_set, status, existing, statusFile, warnings,
                    errors, calls, faults, raced, runs, fn,
                    shown >>

\* The lock taken without waiting for it.
AcquireNoWait(n, w) ==
    /\ tpc[n][w] = "lock"
    /\ lock' = [lock EXCEPT ![n] = w]
    /\ tpc' = [tpc EXCEPT ![n][w] = "load"]
    /\ UNCHANGED << num_files, thread_count, node_count, launched, phase,
                    spawn_i, range, cur, files_created, tmp,
                    last_update_set, status, existing, fs, statusFile,
                    warnings, errors, calls, written, faults, raced, runs, fn,
                    shown >>

\* create_file, line 55: with self.lock.
Acquire(n, w) ==
    /\ tpc[n][w] = "lock"
    /\ lock[n] = Free
    /\ lock' = [lock EXCEPT ![n] = w]
    /\ tpc' = [tpc EXCEPT ![n][w] = "load"]
    /\ UNCHANGED << num_files, thread_count, node_count, launched, phase,
                    spawn_i, range, cur, files_created, tmp,
                    last_update_set, status, existing, fs, statusFile,
                    warnings, errors, calls, written, faults, raced, runs, fn,
                    shown >>

\* create_file, line 57: the read half of self.files_created += 1.
Load(n, w) ==
    /\ tpc[n][w] = "load"
    /\ tmp' = [tmp EXCEPT ![n][w] = files_created[n]]
    /\ tpc' = [tpc EXCEPT ![n][w] = "store"]
    /\ UNCHANGED << num_files, thread_count, node_count, launched, phase,
                    spawn_i, range, cur, lock, files_created,
                    last_update_set, status, existing, fs, statusFile,
                    warnings, errors, calls, written, faults, raced, runs, fn,
                    shown >>

\* The interval tested on the count before the increment.
StoreTestsOldCount(n, w) ==
    /\ tpc[n][w] = "store"
    /\ files_created' = [files_created EXCEPT ![n] = tmp[n][w] + 1]
    /\ tmp' = [tmp EXCEPT ![n][w] = 0]
    /\ tpc' = [tpc EXCEPT ![n][w] =
                 IF tmp[n][w] % StatusInterval = 0
                 THEN "pub_read" ELSE "unlock"]
    /\ UNCHANGED << num_files, thread_count, node_count, launched, phase,
                    spawn_i, range, cur, lock, last_update_set, status,
                    existing, fs, statusFile, warnings, errors, calls,
                    written, faults, raced, runs, fn,
                    shown >>

\* create_file, lines 57-59: the write half of += 1 and the decision to
\* publish.
Store(n, w) ==
    /\ tpc[n][w] = "store"
    /\ files_created' = [files_created EXCEPT ![n] = tmp[n][w] + 1]
    /\ tmp' = [tmp EXCEPT ![n][w] = 0]
    /\ tpc' = [tpc EXCEPT ![n][w] =
                 IF (tmp[n][w] + 1) % StatusInterval = 0
                 THEN "pub_read" ELSE "unlock"]
    /\ UNCHANGED << num_files, thread_count, node_count, launched, phase,
                    spawn_i, range, cur, lock, last_update_set, status,
                    existing, fs, statusFile, warnings, errors, calls,
                    written, faults, raced, runs, fn,
                    shown >>

\* create_file: leaving "with self.lock", then the next loop iteration.
Release(n, w) ==
    /\ tpc[n][w] = "unlock"
    /\ lock' = [lock EXCEPT ![n] = IF @ = w THEN Free ELSE @]
    /\ NextIndex(n, w)
    /\ UNCHANGED << num_files, thread_count, node_count, launched, phase,
                    spawn_i, range, files_created, tmp, last_update_set,
                    status, existing, fs, statusFile, warnings, errors,
                    calls, written, faults, raced, runs, fn,
                    shown >>

\* main, lines 229-239, once more after run() returned: the same command
\* is started again on the directory as the first run left it.  A new
\* process begins with the state __init__ gives it.
Restart(n) ==
    /\ tpc[n][Main] = "done"
    /\ launched = {n}
    /\ runs[n] < MaxRuns
    /\ runs' = [runs EXCEPT ![n] = @ + 1]
    /\ tpc' = [tpc EXCEPT ![n] = [t \in Threads |->
                                    IF t = Main THEN "run" ELSE "idle"]]
    /\ phase' = [phase EXCEPT ![n] = "init"]
    /\ spawn_i' = [spawn_i EXCEPT ![n] = 0]
    /\ range' = [range EXCEPT ![n] = [t \in Threads |-> << 0, 0 >>]]
    /\ cur' = [cur EXCEPT ![n] = [t \in Threads |-> 0]]
    /\ lock' = [lock EXCEPT ![n] = Free]
    /\ files_created' = [files_created EXCEPT ![n] = 0]
    /\ tmp' = [tmp EXCEPT ![n] = [t \in Threads |-> 0]]
    /\ last_update_set' = [last_update_set EXCEPT ![n] = FALSE]
    /\ status' = [status EXCEPT ![n] = [t \in Threads |-> NoStatus]]
    /\ existing' = [existing EXCEPT ![n] = [t \in Threads |-> NoStatus]]
    /\ warnings' = [warnings EXCEPT ![n] = 0]
    /\ errors' = [errors EXCEPT ![n] = 0]
    /\ calls' = [calls EXCEPT ![n] = [i \in 0 .. num_files - 1 |-> 0]]
    /\ written' = [written EXCEPT ![n] = {}]
    /\ shown' = [shown EXCEPT ![n] = NotShown]
    /\ UNCHANGED << num_files, thread_count, node_count, launched, fs,
                    statusFile, faults, raced, fn >>

MainStep(n) ==
    \/ Run(n)
    \/ Spawn(n)
    \/ Join(n)

WorkerStep(n, w) ==
    \/ CheckExists(n, w)
    \/ Warn(n, w)
    \/ WriteFile(n, w)
    \/ Acquire(n, w)
    \/ Load(n, w)
    \/ Store(n, w)
    \/ Release(n, w)

PublishStep(n, t) ==
    \/ ReadStatus(n, t)
    \/ OpenStatus(n, t)
    \/ DumpStatus(n, t)

\* The steps of one run of every launched node.
NextRun ==
    \/ \E n \in NodeIds : MainStep(n)
    \/ \E n \in NodeIds : \E w \in Workers : WorkerStep(n, w)
    \/ \E n \in NodeIds : \E t \in Threads : PublishStep(n, t)

Next ==
    \/ NextRun
    \/ \E n \in NodeIds : Restart(n)

Spec == Init /\ [][Next]_vars

\* ------------------------------------------------------- I/O failures
\* Failures of the file system, at most MaxFaults of them in a behaviour.

\* The exception escapes create_file: the worker thread ends there.
WriteFileFailsKillsWorker(n, w) ==
    /\ tpc[n][w] = "write"
    /\ faults < MaxFaults
    /\ faults' = faults + 1
    /\ errors' = [errors EXCEPT ![n] = @ + 1]
    /\ tpc' = [tpc EXCEPT ![n][w] = "done"]
    /\ UNCHANGED << num_files, thread_count, node_count, launched, phase,
                    spawn_i, range, cur, lock, files_created, tmp,
                    last_update_set, status, existing, fs, statusFile,
                    warnings, calls, written, raced, runs, fn,
                    shown >>

\* create_file, lines 52-61: open() or write() raises; the except clause
\* prints the error and create_file returns.  A failed open leaves no file,
\* a failed write leaves the file open() created, partly written.
WriteFileFails(n, w) ==
    /\ tpc[n][w] = "write"
    /\ faults < MaxFaults
    /\ faults' = faults + 1
    /\ \/ UNCHANGED fs
       \/ fs' = (FilePath(n, cur[n][w]) :> Partial(n)) @@ fs
    /\ errors' = [errors EXCEPT ![n] = @ + 1]
    /\ NextIndex(n, w)
    /\ UNCHANGED << num_files, thread_count, node_count, launched, phase,
                    spawn_i, range, lock, files_created, tmp,
                    last_update_set, status, existing, statusFile, warnings,
                    calls, written, raced,
                    runs, fn,
                    shown >>

\* update_shared_status, lines 82-84 and 152-153: reading the file raises.
ReadStatusFails(n, t) ==
    /\ tpc[n][t] = "pub_read"
    /\ faults < MaxFaults
    /\ faults' = faults + 1
    /\ tpc' = [tpc EXCEPT ![n][t] = AfterPublish(n, t)]
    /\ UNCHANGED << num_files, thread_count, node_count, launched, phase,
                    spawn_i, range, cur, lock, files_created, tmp,
                    last_update_set, status, existing, fs, statusFile,
                    warnings, errors, calls, written, raced,
                    runs, fn,
                    shown >>

\* update_shared_status, lines 150 and 152-153: open(..., 'w') raises.
OpenStatusFails(n, t) ==
    /\ tpc[n][t] = "pub_open"
    /\ faults < MaxFaults
    /\ faults' = faults + 1
    /\ tpc' = [tpc EXCEPT ![n][t] = AfterPublish(n, t)]
    /\ UNCHANGED << num_files, thread_count, node_count, launched, phase,
                    spawn_i, range, cur, lock, files_created, tmp,
                    last_update_set, status, existing, fs, statusFile,
                    warnings, errors, calls, written, raced,
                    runs, fn,
                    shown >>

\* update_shared_status, lines 151-153: json.dump raises after open()
\* truncated the file; what is left of it is no JSON document.
DumpStatusFails(n, t) ==
    /\ tpc[n][t] = "pub_dump"
    /\ faults < MaxFaults
    /\ faults' = faults + 1
    /\ tpc' = [tpc EXCEPT ![n][t] = AfterPublish(n, t)]
    /\ UNCHANGED << num_files, thread_count, node_count, launched, phase,
                    spawn_i, range, cur, lock, files_created, tmp,
                    last_update_set, status, existing, fs, statusFile,
                    warnings, errors, calls, written, raced,
                    runs, fn,
                    shown >>

FaultStep(n, t) ==
    \/ t \in Workers /\ WriteFileFails(n, t)
    \/ ReadStatusFails(n, t)
    \/ OpenStatusFails(n, t)
    \/ DumpStatusFails(n, t)

\* The runs in which the file system may fail: one run of each node of a
\* full cluster (ids 0 .. node_count-1, one node_count).  Node 0 alone gets
\* up to MaxFilesMulti files on any number of threads, or the shortest run
\* with a periodic publish and a sibling thread (StatusInterval files on
\* two threads); two nodes get up to MaxFaultFilesMulti files each.
InitFault ==
    /\ Init
    /\ launched = 0 .. Cardinality(launched) - 1
    /\ \A n \in launched : node_count[n] = Cardinality(launched)
    /\ \/ SingleValidNode /\ num_files <= MaxFilesMulti
       \/ SingleValidNode /\ num_files = StatusInterval /\ thread_count = 2
                           /\ fs = << >>
       \/ ~SingleValidNode /\ num_files <= MaxFaultFilesMulti

NextFault ==
    \/ NextRun
    \/ \E n \in NodeIds : \E t \in Threads : FaultStep(n, t)

FaultSpec == InitFault /\ [][NextFault]_vars

\* Whatever thread t of node n does next, failures included.
ThreadStep(n, t) ==
    \/ t = Main /\ MainStep(n)
    \/ t \in Workers /\ WorkerStep(n, t)
    \/ PublishStep(n, t)
    \/ FaultStep(n, t)

\* threading.Thread, lines 179-188: the operating system schedules every
\* thread that can run, and no call of the program blocks for ever except
\* on the lock and in join.
LiveSpec ==
    /\ InitFault
    /\ [][NextFault]_vars
    /\ \A n \in NodeIds : \A t \in Threads : WF_vars(ThreadStep(n, t))

\* ------------------------------------------- the pure functions, applied
\* fn holds one call: the function, its arguments and, once it has been
\* applied, << result >>.

FnInputs ==
    { [op |-> "global_num", args |-> << nc, n1, i1, n2, i2 >>, out |-> << >>] :
          nc \in 1 .. MaxFnNodes, n1 \in 0 .. MaxFnNodes, i1 \in 0 .. MaxFnIndex,
          n2 \in 0 .. MaxFnNodes, i2 \in 0 .. MaxFnIndex }
    \cup
    { [op |-> "ranges", args |-> << F, W >>, out |-> << >>] :
          F \in 0 .. MaxFnFiles, W \in 1 .. MaxFnThreads }

InitFn ==
    /\ fn \in FnInputs
    /\ num_files = 0
    /\ thread_count = 1
    /\ launched = {}
    /\ node_count = [n \in NodeIds |-> 1]
    /\ fs = << >>
    /\ Fresh

RunVars ==
    << num_files, thread_count, node_count, launched, tpc, phase, spawn_i,
       range, cur, lock, files_created, tmp, last_update_set, status,
       existing, fs, statusFile, warnings, errors, calls, written, faults,
       raced, runs, shown >>

\* create_file, line 44, for two (node_id, local index) pairs of one run.
CallGlobalNum ==
    /\ fn.op = "global_num"
    /\ fn.out = << >>
    /\ fn' = [fn EXCEPT !.out =
                << << GlobalNum(fn.args[3], fn.args[1], fn.args[2]),
                      GlobalNum(fn.args[5], fn.args[1], fn.args[4]) >> >>]
    /\ UNCHANGED RunVars

\* run, lines 167-184: the ranges handed to the threads.
CallRanges ==
    /\ fn.op = "ranges"
    /\ fn.out = << >>
    /\ fn' = [fn EXCEPT !.out = << Ranges(fn.args[1], fn.args[2]) >>]
    /\ UNCHANGED RunVars

NextFn ==
    \/ CallGlobalNum
    \/ CallRanges

FnSpec == InitFn /\ [][NextFn]_vars

\* =============================================================== claims

\* C1: for a fixed node_count, two distinct (node_id, local_index) pairs with
\* node_id < node_count never get the same global index from create_file.
C1_GlobalIndexUnique ==
    (fn.op = "global_num" /\ fn.out # << >>) =>
        LET nc == fn.args[1]
            a == << fn.args[2], fn.args[3] >>
            b == << fn.args[4], fn.args[5] >>
        IN  (a[1] < nc /\ b[1] < nc /\ a # b) => fn.out[1][1] # fn.out[1][2]

\* Two different nodes at different local indices, both indices computed.
C1_Witness ==
    /\ fn.op = "global_num"
    /\ fn.out # << >>
    /\ fn.args[2] < fn.args[4]
    /\ fn.args[4] < fn.args[1]
    /\ fn.args[3] > fn.args[5]

RECURSIVE SumCounts(_)
SumCounts(R) ==
    IF R = << >> THEN 0 ELSE Head(R)[2] + SumCounts(Tail(R))

\* C2: the ranges handed to the worker threads are contiguous from 0,
\* pairwise disjoint, cover [0, F) with counts summing to F, each of length
\* floor(F/W) or ceil(F/W), the first F mod W of them being the longer ones.
C2_RangesPartition ==
    (fn.op = "ranges" /\ fn.out # << >>) =>
        LET F == fn.args[1]
            W == fn.args[2]
            R == fn.out[1]
            lo == F \div W
            hi == (F + W - 1) \div W
        IN  /\ Len(R) <= W
            /\ \A k \in 1 .. Len(R) :
                  /\ R[k][1] = (IF k = 1 THEN 0 ELSE R[k-1][1] + R[k-1][2])
                  /\ R[k][2] >= lo /\ R[k][2] <= hi
                  /\ R[k][2] = (IF k <= F % W THEN lo + 1 ELSE lo)
            /\ \A k, l \in 1 .. Len(R) :
                  k < l => R[k][1] + R[k][2] <= R[l][1]
            /\ (IF R = << >> THEN 0 ELSE R[Len(R)][1] + R[Len(R)][2]) = F
            /\ SumCounts(R) = F

\* An uneven split over several threads has been computed.
C2_Witness ==
    /\ fn.op = "ranges"
    /\ fn.out # << >>
    /\ fn.args[1] % fn.args[2] > 1
    /\ fn.args[1] > fn.args[2]
    /\ Len(fn.out[1]) = fn.args[2]

\* C3: a publish by node n that found an existing record writes a record
\* in which the entry of every other node is the entry it read, and whose
\* keys are the keys it read plus n.
C3_PublishPreservesOthers ==
    [][ \A n \in NodeIds : \A t \in Threads :
          ( /\ tpc[n][t] = "pub_dump"
            /\ tpc'[n][t] # "pub_dump"
            /\ statusFile'.kind = "record"
            /\ existing[n][t].kind = "record" )
          => /\ DOMAIN statusFile'.nodes = DOMAIN existing[n][t].nodes \cup {n}
             /\ \A j \in DOMAIN existing[n][t].nodes \ {n} :
                   statusFile'.nodes[j] = existing[n][t].nodes[j] ]_vars

\* A final publish has just written a record over one that held another
\* node's entry with files in it.
C3_Witness ==
    \E n \in NodeIds : \E j \in NodeIds \ {n} :
        /\ tpc[n][Main] = "done"
        /\ existing[n][Main].kind = "record"
        /\ j \in DOMAIN existing[n][Main].nodes
        /\ existing[n][Main].nodes[j].files_created > 0
        /\ statusFile = status[n][Main]

\* Every launched node has returned from run().
AllDone ==
    \A n \in launched : tpc[n][Main] = "done"

\* node_count nodes with ids 0 .. node_count-1, all given that node_count,
\* started on a directory holding no file of an earlier run.
FullCluster ==
    /\ \A n \in launched : runs[n] = 1
    /\ \A n \in launched : node_count[n] = Cardinality(launched)
    /\ launched = 0 .. Cardinality(launched) - 1
    /\ \A p \in DOMAIN fs : fs[p] # PreContent

\* The names of the files of a full run: node n owns the global indices
\* congruent to n modulo node_count.
ExpectedFiles ==
    UNION { { FileName(n, g) :
                  g \in { h \in 0 .. num_files * Cardinality(launched) - 1 :
                            h % Cardinality(launched) = n } } :
            n \in launched }

FilesComplete ==
    /\ DOMAIN fs = ExpectedFiles
    /\ Cardinality(DOMAIN fs) = num_files * Cardinality(launched)

StatusComplete ==
    /\ statusFile.kind = "record"
    /\ statusFile.aggregate_stats.total_files_created
           = num_files * Cardinality(launched)
    /\ statusFile.aggregate_stats.percent_complete = 1000

\* C4 as claimed: after all nodes of a full cluster have finished, under any
\* interleaving, the record shows F * node_count files and 100.0 percent and
\* the directory holds the node_count * F expected names.
C4_Original ==
    (AllDone /\ FullCluster) => (StatusComplete /\ FilesComplete)

\* C4 as claimed, for F >= 1 only: what is left to refute is the race.
C4_OriginalPositiveF ==
    (AllDone /\ FullCluster /\ num_files >= 1)
        => (StatusComplete /\ FilesComplete)

\* C4, amended: the directory always holds the expected names; the record
\* shows F * node_count and 100.0 when F >= 1 and no publish read the file
\* while a publish of another node was between its read and its write.
C4_FinalStatusWhenSerialized ==
    (AllDone /\ FullCluster) =>
        /\ FilesComplete
        /\ (num_files >= 1 /\ ~raced) => StatusComplete

\* Two nodes have finished three files each without racing publishes.
C4_Witness ==
    /\ AllDone
    /\ FullCluster
    /\ Cardinality(launched) = 2
    /\ num_files = 3
    /\ ~raced
    /\ StatusComplete

\* Every local index of every launched node went through create_file once.
AllProcessed ==
    \A n \in launched : \A i \in 0 .. num_files - 1 : calls[n][i] = 1

\* Thread t of node n holds a record it built and has not yet dropped.
Publishing(n, t) ==
    /\ tpc[n][t] \in {"pub_open", "pub_dump"}
    /\ status[n][t].kind = "record"

\* The record holds exactly the entries of nodes 0 .. nc-1, each at its
\* full target F.
AllEntriesFull(rec, nc) ==
    /\ DOMAIN rec.nodes = 0 .. nc - 1
    /\ \A j \in DOMAIN rec.nodes :
          /\ rec.nodes[j].files_created = num_files
          /\ rec.nodes[j].target_files = num_files

\* C5: when the record a publish computes holds an entry for every one of
\* the node_count nodes, each with files_created = F, and no other entry,
\* and F * node_count > 0, its aggregate percent_complete is 100.0.
C5_FullRecordIsHundredPercent ==
    \A n \in NodeIds : \A t \in Threads :
        ( /\ Publishing(n, t)
          /\ num_files * node_count[n] > 0
          /\ AllEntriesFull(status[n][t], node_count[n]) )
        => status[n][t].aggregate_stats.percent_complete = 1000

\* A publish of a two-node cluster is about to write a record in which
\* both nodes are at their full target of several files.
C5_Witness ==
    \E n \in NodeIds :
        /\ Publishing(n, Main)
        /\ node_count[n] = 2
        /\ num_files >= 2
        /\ AllEntriesFull(status[n][Main], 2)

\* The run of node 0 alone, node_count = 1, F >= 1, the first on a
\* directory without files.
SingleNodeRun ==
    /\ launched = {0}
    /\ node_count[0] = 1
    /\ num_files >= 1
    /\ runs[0] = 1
    /\ \A p \in DOMAIN fs : fs[p] # PreContent

\* C6: a single-node run with F >= 1 files into an empty directory calls
\* create_file at most once per local index at any time and, once run()
\* has returned, exactly once for each index of [0, F); the directory then
\* holds exactly the files of global indices 0 .. F-1, and the record the
\* final publish wrote shows 100.0 percent.
C6_SingleNodeRun ==
    SingleNodeRun =>
        /\ \A i \in 0 .. num_files - 1 : calls[0][i] <= 1
        /\ tpc[0][Main] = "done" =>
              /\ \A i \in 0 .. num_files - 1 : calls[0][i] = 1
              /\ DOMAIN fs = { FileName(0, g) : g \in 0 .. num_files - 1 }
              /\ Cardinality(DOMAIN fs) = num_files
              /\ statusFile = status[0][Main]
              /\ statusFile.kind = "record"
              /\ statusFile.nodes[0].files_created = num_files
              /\ statusFile.aggregate_stats.percent_complete = 1000

\* Five files over two workers, as in the scenario, finished.
C6_Witness ==
    /\ SingleNodeRun
    /\ num_files = 5
    /\ thread_count = 2
    /\ tpc[0][Main] = "done"
    /\ statusFile.kind = "record"
    /\ statusFile.aggregate_stats.percent_complete = 1000

\* C7: create_file on a path that exists leaves the file as it is, prints
\* exactly one warning, counts no error and no created file; no step ever
\* changes or removes a file that exists, so a second invocation for an
\* index leaves the one file with the content of the first; a finished run
\* has printed one warning per index it did not write.
C7_ExistingFileSkipped ==
    [][ /\ \A p \in DOMAIN fs : p \in DOMAIN fs' /\ fs'[p] = fs[p]
        /\ \A n \in NodeIds : \A w \in Workers :
              (tpc[n][w] = "warn" /\ tpc'[n][w] # "warn") =>
                  /\ warnings'[n] = warnings[n] + 1
                  /\ errors'[n] = errors[n]
                  /\ files_created'[n] = files_created[n]
                  /\ tpc'[n][w] \in {"exists", "done"}
        /\ \A n \in launched :
              tpc'[n][Main] = "done" =>
                  warnings'[n] = num_files - Cardinality(written'[n]) ]_vars

\* A second run has finished: every index was invoked again, every file
\* is still the one the first run generated, one warning per index.
C7_Witness ==
    \E n \in launched :
        /\ runs[n] = 2
        /\ tpc[n][Main] = "done"
        /\ num_files >= 2
        /\ warnings[n] = num_files
        /\ Cardinality(DOMAIN fs) = num_files
        /\ \A p \in DOMAIN fs : fs[p] = << "gen", 1 >>

\* C8: once the workers of a run have ended, whatever files existed
\* before, every target path exists, the targets that did not exist were
\* written by this run, and files_created counts exactly the files this run
\* wrote (the skipped ones are the warnings); the final publish reports that
\* count.
C8_SkippedFilesNotCounted ==
    \A n \in launched :
        phase[n] = "final" =>
            /\ files_created[n] = Cardinality(written[n])
            /\ files_created[n] + warnings[n] = num_files
            /\ \A i \in 0 .. num_files - 1 :
                  /\ FilePath(n, i) \in DOMAIN fs
                  /\ i \in written[n] <=> fs[FilePath(n, i)] = Generated(n)
            /\ Publishing(n, Main) =>
                  status[n][Main].nodes[n].files_created
                      = Cardinality(written[n])

\* A first run that found one of its targets in the directory has
\* finished and published the count without it.
C8_Witness ==
    \E n \in launched :
        /\ runs[n] = 1
        /\ tpc[n][Main] = "done"
        /\ num_files >= 3
        /\ warnings[n] = 1
        /\ \E i \in 0 .. num_files - 1 : fs[FilePath(n, i)] = PreContent
        /\ statusFile.kind = "record"
        /\ statusFile.nodes[n].files_created = num_files - 1

\* C9: under fair scheduling of the threads every run completes, also when
\* writes of files or accesses to the status file fail: eventually run()
\* has returned on every node, after its final publish, and every local
\* index of every worker's range went through create_file.
C9_RunCompletes ==
    <>(AllDone /\ AllProcessed)

\* A run with two workers has completed although the write of a file
\* failed: the other indices were processed and written.
C9_Witness ==
    /\ AllDone
    /\ AllProcessed
    /\ thread_count = 2
    /\ num_files >= 10
    /\ errors[0] = 1
    /\ files_created[0] = num_files - 1

\* C10 as claimed: a failed read or write of the status file drops the
\* publish attempt as a whole; the file is left as the attempt found it,
\* files_created is not changed and the thread goes on.
C10_FailedPublishLeavesRecord ==
    [][ \A n \in NodeIds : \A t \in Threads :
          ( /\ tpc[n][t] \in {"pub_read", "pub_open", "pub_dump"}
            /\ tpc'[n][t] # tpc[n][t]
            /\ faults' = faults + 1 )
          => /\ statusFile' = (IF tpc[n][t] = "pub_read"
                                THEN statusFile ELSE existing[n][t])
             /\ files_created' = files_created
             /\ tpc'[n][t] = AfterPublish(n, t) ]_vars

\* Node n has done nothing yet but be constructed: no thread of it started,
\* no file written, no publish begun, no entry of it in the record.
NothingDone(n) ==
    /\ tpc[n][Main] = "run"
    /\ \A w \in Workers : tpc[n][w] = "idle"
    /\ written[n] = {}
    /\ phase[n] = "init"
    /\ statusFile.kind = "record" => n \notin DOMAIN statusFile.nodes

\* C11 as claimed: a node launched with node id >= node count is rejected
\* in INIT: it starts no worker, creates no file and publishes no record.
C11_InvalidConfigRejected ==
    \A n \in launched : n >= node_count[n] => NothingDone(n)

\* The worker threads of node n that were started.
Started(n) ==
    { w \in Workers : tpc[n][w] # "idle" }

\* The spawn loop of node n has ended.
SpawnLoopEnded(n) ==
    \/ tpc[n][Main] \in {"join", "done"}
    \/ phase[n] = "final"

\* C12: run() starts a thread only for a non-empty range, never more than
\* min(F, W) of them, and when its spawn loop has ended exactly min(F, W)
\* threads were started, each with the range the partition gives it.
C12_NoEmptyWorker ==
    \A n \in launched :
        /\ \A w \in Started(n) : range[n][w][2] >= 1
        /\ Cardinality(Started(n)) <= Min(num_files, thread_count)
        /\ SpawnLoopEnded(n) =>
              /\ Cardinality(Started(n)) = Min(num_files, thread_count)
              /\ \A w \in Started(n) :
                    range[n][w] = << StartNum(num_files, thread_count, w - 1),
                                    FilesToCreate(num_files, thread_count,
                                                  w - 1) >>

\* More threads than files: the spawn loop has ended with one thread
\* started and one slot left idle.
C12_Witness ==
    \E n \in launched :
        /\ thread_count > num_files
        /\ num_files >= 1
        /\ tpc[n][Main] = "join"
        /\ Cardinality(Started(n)) = num_files
        /\ \E w \in Workers : w <= thread_count /\ tpc[n][w] = "idle"

\* Thread t of node n is inside update_shared_status.
InPublish(n, t) ==
    tpc[n][t] \in {"pub_read", "pub_open", "pub_dump"}

\* Thread t of node n is incrementing files_created, deciding on the
\* publish, publishing, or about to leave the section.
InSection(n, t) ==
    tpc[n][t] \in {"load", "store", "unlock"} \/ InPublish(n, t)

\* The workers of node n that wrote their file and have not counted it yet.
Uncounted(n) ==
    { w \in Workers : tpc[n][w] \in {"lock", "load", "store"} }

\* C13: in every node at most one thread at a time is incrementing
\* files_created or inside update_shared_status; a worker there holds the
\* lock, the main thread is there only while no worker runs; and no
\* increment is lost: files_created is the number of files written less the
\* ones whose worker has not yet done its increment.
C13_OneCriticalSection ==
    \A n \in launched :
        /\ Cardinality({ t \in Threads : InSection(n, t) }) <= 1
        /\ \A w \in Workers : InSection(n, w) => lock[n] = w
        /\ InPublish(n, Main) =>
              \A w \in Workers : tpc[n][w] \in {"idle", "done"}
        /\ files_created[n] + Cardinality(Uncounted(n))
              = Cardinality(written[n])

\* A worker is inside the periodic publish while its sibling, its file
\* written, waits for the lock.
C13_Witness ==
    \E n \in launched : \E w, v \in Workers :
        /\ w # v
        /\ InPublish(n, w)
        /\ tpc[n][v] = "lock"
        /\ files_created[n] = StatusInterval

\* C14: a worker enters update_shared_status exactly at the increment that
\* brings files_created to a multiple of 10: files_created changes only by
\* one such increment at a time (or is reset by a new run), that step
\* begins a publish if and only if the new count is a multiple of 10, and
\* no other step of a worker, the skip of an existing file included,
\* begins one; the record a periodic publish builds carries the count, a
\* positive multiple of 10.
C14_PublishEveryTenth ==
    [][ \A n \in NodeIds :
          /\ files_created'[n] # files_created[n] =>
                \/ /\ files_created'[n] = files_created[n] + 1
                   /\ \E w \in Workers :
                         /\ tpc[n][w] = "store"
                         /\ tpc'[n][w] # "store"
                         /\ tpc'[n][w] = "pub_read"
                               <=> files_created'[n] % 10 = 0
                \/ runs'[n] # runs[n] /\ files_created'[n] = 0
          /\ \A w \in Workers :
                /\ (tpc'[n][w] = "pub_read" /\ tpc[n][w] # "pub_read") =>
                      /\ tpc[n][w] = "store"
                      /\ files_created'[n] = files_created[n] + 1
                      /\ files_created'[n] % 10 = 0
                /\ (InPublish(n, w)' /\ status'[n][w].kind = "record"
                       /\ tpc'[n][w] # "pub_read") =>
                      /\ status'[n][w].nodes[n].files_created
                            = files_created'[n]
                      /\ files_created'[n] % 10 = 0
                      /\ files_created'[n] > 0 ]_vars

\* A run that skipped an existing file is writing its periodic record at
\* ten files created, the eleventh index already handled by the skip.
C14_Witness ==
    \E n \in launched : \E w \in Workers :
        /\ tpc[n][w] = "pub_dump"
        /\ warnings[n] = 1
        /\ files_created[n] = 10
        /\ status[n][w].nodes[n].files_created = 10

\* The positions of the main thread in the order run() goes through them.
MainOrder(p, ph) ==
    CASE p = "run" -> 0
      [] p \in {"pub_read", "pub_open", "pub_dump"} /\ ph = "init" -> 1
      [] p = "spawn" -> 2
      [] p = "join" -> 3
      [] p \in {"pub_read", "pub_open", "pub_dump"} /\ ph = "final" -> 4
      [] p = "done" -> 5
      [] OTHER -> 6

\* C15: run() goes through initial publish, spawn loop, join, final publish
\* and return in that order, each once per run.  During the initial
\* publish no worker has been started and the count, also in the record
\* the publish builds, is 0; no worker is started before it is over; the
\* final publish begins only when every started worker has ended, and the
\* count, also in the record it builds, is the number of files this run
\* wrote.
C15_PublishOrder ==
    [][ \A n \in launched :
          /\ tpc'[n][Main] # tpc[n][Main] =>
                \/ /\ MainOrder(tpc'[n][Main], phase'[n])
                         = MainOrder(tpc[n][Main], phase[n]) + 1
                   /\ MainOrder(tpc'[n][Main], phase'[n]) <= 5
                   /\ runs'[n] = runs[n]
                \/ /\ InPublish(n, Main) /\ InPublish(n, Main)'
                   /\ phase'[n] = phase[n]
                \/ /\ runs'[n] = runs[n] + 1
                   /\ tpc[n][Main] = "done" /\ tpc'[n][Main] = "run"
          /\ (InPublish(n, Main)' /\ phase'[n] = "init") =>
                /\ Started(n)' = {}
                /\ files_created'[n] = 0
                /\ status'[n][Main].kind = "record" /\ tpc'[n][Main] # "pub_read"
                      => status'[n][Main].nodes[n].files_created = 0
          /\ Started(n)' # {} => MainOrder(tpc'[n][Main], phase'[n]) >= 2
          /\ (InPublish(n, Main)' /\ phase'[n] = "final") =>
                /\ \A w \in Workers : tpc'[n][w] \in {"idle", "done"}
                /\ files_created'[n] = Cardinality(written'[n])
                /\ status'[n][Main].kind = "record" /\ tpc'[n][Main] # "pub_read"
                      => status'[n][Main].nodes[n].files_created
                            = Cardinality(written'[n])
          /\ phase'[n] # phase[n] =>
                \/ tpc[n][Main] = "join" /\ phase'[n] = "final"
                \/ runs'[n] # runs[n] /\ phase'[n] = "init" ]_vars

\* A run of two workers has returned after its final publish wrote the
\* record with the count of the files both wrote.
C15_Witness ==
    \E n \in launched :
        /\ tpc[n][Main] = "done"
        /\ thread_count = 2
        /\ Cardinality(Started(n)) = 2
        /\ num_files >= 3
        /\ statusFile = status[n][Main]
        /\ statusFile.nodes[n].files_created = Cardinality(written[n])
        /\ Cardinality(written[n]) = num_files

\* Every entry of the record in the file is at least what a record written
\* earlier in that node's run showed for the node.
NoEntryWentBack ==
    statusFile.kind = "record" =>
        \A j \in DOMAIN statusFile.nodes :
            statusFile.nodes[j].files_created >= shown[j]

\* C16 as claimed: under any interleaving of the publishes of several
\* nodes, no content of the record shows for a node a files_created smaller
\* than an earlier content of the same run did.
C16_Original ==
    FullCluster => NoEntryWentBack

\* C16, amended: the count a node publishes for itself is never below what
\* any earlier record of its run showed for it, and the record never goes
\* back for any node as long as no publish read the file while a publish
\* of another node was between its read and the end of its write.
C16_MonotonicWhenSerialized ==
    /\ \A n \in launched : \A t \in Threads :
          Publishing(n, t) =>
              /\ status[n][t].nodes[n].files_created >= shown[n]
              /\ status[n][t].nodes[n].files_created = files_created[n]
    /\ \A n \in launched : shown[n] <= files_created[n]
    /\ ~raced => NoEntryWentBack

\* Two nodes published in turn, without a race: the record holds both
\* entries at their final counts, after it showed them at 0.
C16_Witness ==
    /\ ~raced
    /\ AllDone
    /\ Cardinality(launched) = 2
    /\ num_files >= 2
    /\ statusFile.kind = "record"
    /\ \A j \in launched :
          /\ j \in DOMAIN statusFile.nodes
          /\ statusFile.nodes[j].files_created = num_files
          /\ shown[j] = num_files

\* The files node n created since its previous publish, when thread t is
\* publishing: a periodic publish comes with every tenth file (C14), so a
\* worker publishes ten files after the previous publish and the main
\* thread, in its final publish, what was counted after the last multiple
\* of ten.
FilesSincePrevious(n, t) ==
    IF t = Main THEN files_created[n] % 10 ELSE 10

\* C17 as claimed: the byte quantity of the throughput a publish computes
\* is the file size times the number of files the node created since its
\* previous publish, the final publish included, and the first publish of
\* a run has no throughput.
C17_ThroughputSincePrevious ==
    \A n \in launched : \A t \in Threads :
        Publishing(n, t) =>
            LET throughput == status[n][t].nodes[n].throughput
            IN  /\ throughput # Null =>
                      throughput[1] = FilesSincePrevious(n, t)
                /\ (t = Main /\ phase[n] = "init") => throughput = Null

RECURSIVE EntrySum(_, _)
EntrySum(rec, ids) ==
    IF ids = {} THEN 0
    ELSE LET j == CHOOSE x \in ids : TRUE
         IN  rec.nodes[j].files_created + EntrySum(rec, ids \ {j})

\* The aggregates of a record agree with its entries: the total is the sum
\* of the entries, the percentage (in tenths) is the tenth nearest to
\* 100 * sum / total_files, active_nodes counts the entries that have a
\* throughput.
Consistent(rec) ==
    LET sum == EntrySum(rec, DOMAIN rec.nodes)
        pct == rec.aggregate_stats.percent_complete
        d == pct * rec.total_files - 1000 * sum
    IN  /\ rec.aggregate_stats.total_files_created = sum
        /\ rec.total_files > 0
        /\ 2 * d <= rec.total_files
        /\ 2 * d >= 0 - rec.total_files
        /\ rec.aggregate_stats.active_nodes =
              Cardinality({ j \in DOMAIN rec.nodes :
                              rec.nodes[j].throughput # Null })

\* C18: every record a publish builds or has written is consistent, its
\* total_files being the publishing node's num_files * node_count.
C18_RecordConsistent ==
    /\ statusFile.kind = "record" =>
          /\ Consistent(statusFile)
          /\ \E n \in launched :
                statusFile.total_files = num_files * node_count[n]
    /\ \A n \in launched : \A t \in Threads :
          Publishing(n, t) =>
              /\ Consistent(status[n][t])
              /\ status[n][t].total_files = num_files * node_count[n]

\* The file holds a record with the entries of two nodes, one with a
\* throughput and one without, and files in it.
C18_Witness ==
    /\ statusFile.kind = "record"
    /\ DOMAIN statusFile.nodes = {0, 1}
    /\ statusFile.aggregate_stats.active_nodes = 1
    /\ statusFile.aggregate_stats.total_files_created >= 3
    /\ statusFile.nodes[0].files_created >= 1
    /\ statusFile.nodes[1].files_created >= 1

\* Worker w of node n is inside create_file, between computing the path
\* and the end of the write.
AtFile(n, w) ==
    tpc[n][w] \in {"exists", "warn", "write"}

\* C19: the paths of the local indices of all launched nodes are pairwise
\* different, whatever node_count each node was given; two workers that
\* are inside create_file at the same time are at different paths; and a
\* worker that found its path absent still finds it absent when it writes.
C19_NoSharedPath ==
    /\ \A n, m \in launched : \A i, j \in 0 .. num_files - 1 :
          (n # m \/ i # j) => FilePath(n, i) # FilePath(m, j)
    /\ \A n, m \in launched : \A w, v \in Workers :
          (AtFile(n, w) /\ AtFile(m, v) /\ (n # m \/ w # v)) =>
              /\ FilePath(n, cur[n][w]) # FilePath(m, cur[m][v])
              /\ n = m => cur[n][w] # cur[m][v]
    /\ \A n \in launched : \A w \in Workers :
          tpc[n][w] = "write" => FilePath(n, cur[n][w]) \notin DOMAIN fs

\* Two nodes given different node counts are both about to write the file
\* of the same global index.
C19_Witness ==
    \E w, v \in Workers :
        /\ launched = {0, 1}
        /\ node_count[0] # node_count[1]
        /\ tpc[0][w] = "write"
        /\ tpc[1][v] = "write"
        /\ GlobalNum(cur[0][w], node_count[0], 0)
              = GlobalNum(cur[1][v], node_count[1], 1)

\* Nodes 0 .. node_count-1, all given that node_count, each in its first
\* run: the status file was absent when the first of them started.
ValidCluster ==
    /\ launched = 0 .. Cardinality(launched) - 1
    /\ \A n \in launched : node_count[n] = Cardinality(launched)
    /\ \A n \in launched : runs[n] = 1

\* Every entry of the record is between 0 and F and the aggregate is at
\* most the target, 100.0 percent.
WithinTarget(rec) ==
    /\ \A j \in DOMAIN rec.nodes :
          /\ rec.nodes[j].files_created >= 0
          /\ rec.nodes[j].files_created <= num_files
    /\ rec.aggregate_stats.total_files_created <= rec.total_files
    /\ rec.aggregate_stats.percent_complete <= 1000

\* C20: in a valid cluster with F > 0 that started without a status file,
\* every record built or written holds only entries of launched nodes,
\* each within 0 .. F, and an aggregate of at most total_files and 100.0
\* percent, under any interleaving of the publishes.
C20_NeverAboveTarget ==
    (ValidCluster /\ num_files > 0) =>
        /\ statusFile.kind = "record" =>
              /\ WithinTarget(statusFile)
              /\ DOMAIN statusFile.nodes \subseteq launched
        /\ \A n \in launched : \A t \in Threads :
              Publishing(n, t) => WithinTarget(status[n][t])

\* Two nodes raced and the record nevertheless shows the full target.
C20_Witness ==
    /\ ValidCluster
    /\ Cardinality(launched) = 2
    /\ num_files >= 2
    /\ raced
    /\ statusFile.kind = "record"
    /\ statusFile.aggregate_stats.total_files_created
          = statusFile.total_files
    /\ statusFile.aggregate_stats.percent_complete = 1000

====
